---- MODULE Spec2Model ----
(***************************************************************************)
(* Model of the encoder project's main-process services:                   *)
(*   database.js  (media / encoding_jobs tables, SQLite semantics),        *)
(*   scanner.js   (scanLibrary, watcher handlers, queueEncodingJobs),      *)
(*   encoder.js   (processEncodingQueue, startEncodingJob, the ffmpeg      *)
(*                 close/error handlers, replaceOriginalFile, restartJob,  *)
(*                 pauseQueue / resumeQueue / setMaxParallelJobs).         *)
(* Every handler runs on the single Node event loop: the code between two  *)
(* awaits is one atomic step, and each action below is one such step.      *)
(***************************************************************************)
EXTENDS Integers, Sequences, FiniteSets, TLC

(* ---------------------------- bounds ----------------------------------- *)
NumPaths == 2          \* media files of the library: paths 1..NumPaths
MaxJobs  == 2          \* encoding_jobs ids handed out by AUTOINCREMENT
MaxMedia == 3          \* media ids handed out by AUTOINCREMENT
MaxCount == 2          \* largest max_parallel_jobs a schedule carries
MaxRetries == 1        \* largest retries count of a persisted job row
MaxRules == 2          \* schedule ids handed out by AUTOINCREMENT
NumDays  == 2          \* weekdays the clock runs through: 0..NumDays-1
NumRoots == 2          \* directories a scan can be asked for: 1..NumRoots
MaxTimers == 2         \* pending timers counted; MaxTimers stands for that many or more

(* ------------------------ program constants ---------------------------- *)
DefaultMaxParallelJobs == 2
PriorityUnit == 104857600
MediaLimit == 100

Paths    == 1..NumPaths
JobIds   == 1..MaxJobs
\* The ids a row of encoding_jobs can have: those the admissions of one
\* session hand out, and the next one, which a table built by the admissions
\* of earlier sessions already holds.
RowIds   == 1..(MaxJobs + 1)
Counts   == 0..MaxCount
NULL     == "null"
NoSize   == -1
NoPath   == 0

AcceptedCodecs == {"hevc", "h265", "av1"}
Statuses == {"queued", "processing", "replacing_file", "completed", "failed"}

\* The library: the file at path 1 is a 300 MB file, every other file is a
\* 50 MB file; a file's video stream is h264 or hevc.  writer is 0 for a
\* file that came from outside and the job id for an encoder's output.
FileCodecs   == {"h264", "hevc"}
OrigSize(p)  == IF p = 1 THEN 314572800 ELSE 52428800
OrigFile(p, codec) == [codec |-> codec, size |-> OrigSize(p), writer |-> 0]
NoFile       == [codec |-> "none", size |-> 0, writer |-> 0]
\* What ffmpeg writes for job j: hevc, half the size of its job's original.
EncodedSize(origSize) == origSize \div 2

VARIABLES
  fileContent,     \* the library on disk: path -> file (NoFile when absent)
  media,           \* table media: a set of rows
  mediaSeq,        \* sqlite_sequence of media: last id handed out
  encoding_jobs,   \* table encoding_jobs: id -> row
  jobSeq,          \* sqlite_sequence of encoding_jobs
  maxParallelJobs, activeJobs, isQueuePaused, activeJobsMap,
  pollTimers,      \* pending setTimeout callbacks of processEncodingQueue
  proc,            \* per job id: where its startEncodingJob / ffmpeg run is
  jobArg,          \* per job id: the job object its run was started with
  preEncode,       \* per job id: the source file when its run began
  watcher,         \* scanner.js "watcher": the root its instance watches
  watching,        \* the roots whose chokidar instance has not been closed
  scanning,        \* a scanLibrary call is between its awaits
  scanQueue,       \* the directory entries that call still has to visit
  results,         \* the counters of that call
  restartResult,   \* outcome of the last restartJob call
  schedule,        \* table schedule: id -> row
  scheduleSeq,     \* sqlite_sequence of schedule
  scheduleJobs,    \* scheduler.js scheduleJobs: rule id -> {start, end}
  timers,          \* the node-schedule jobs that are scheduled (not cancelled)
  clock,           \* wall clock: <<weekday, index into Instants>>
  due,             \* the jobs node-schedule has yet to invoke at this instant
  schedulerUp      \* initializeScheduler has run in this process

storeVars    == <<media, mediaSeq, encoding_jobs, jobSeq>>
dispatchVars == <<maxParallelJobs, activeJobs, isQueuePaused, activeJobsMap,
                   pollTimers>>
runVars      == <<proc, jobArg, preEncode>>
scanVars     == <<watcher, watching, scanning, scanQueue, results>>
schedVars    == <<schedule, scheduleSeq, scheduleJobs, timers, clock, due,
                 schedulerUp>>
vars == <<fileContent, media, mediaSeq, encoding_jobs, jobSeq,
          maxParallelJobs, activeJobs, isQueuePaused, activeJobsMap,
          pollTimers, proc, jobArg, preEncode, watcher, watching, scanning, scanQueue,
          results, restartResult,
          schedule, scheduleSeq, scheduleJobs, timers, clock, due, schedulerUp>>

(* ------------------------------ helpers -------------------------------- *)
Max(a, b) == IF a > b THEN a ELSE b
Merge(row, data) ==
  [f \in DOMAIN row |-> IF f \in DOMAIN data THEN data[f] ELSE row[f]]
Without(f, S) == [x \in (DOMAIN f) \ S |-> f[x]]

(* ------------------------------ database.js ---------------------------- *)
\* String.prototype.toLowerCase on the codec names that occur.
toLowerCase(codec) == IF codec = "HEVC" THEN "hevc" ELSE codec
\* needsEncoding of addMedia / processMediaFile
needsEncoding(codec) == toLowerCase(codec) \notin AcceptedCodecs

\* INSERT OR REPLACE INTO media: file_path is UNIQUE, so a row with the same
\* path is deleted first; the new row gets a fresh AUTOINCREMENT id and the
\* column default encoded_previously = FALSE.
ConflictingMedia(M, path) == {m \in M : m.file_path = path}

\* foreign_keys = ON and ON DELETE CASCADE: deleting media rows deletes the
\* encoding_jobs rows that reference them.
CascadeDelete(J, mediaIds) ==
  Without(J, {j \in DOMAIN J : J[j].media_id \in mediaIds})

NewMediaRow(id, path, file) ==
  [id |-> id, file_path |-> path, file_size_bytes |-> file.size,
   encoding_type |-> file.codec, needs_encoding |-> needsEncoding(file.codec),
   encoded_previously |-> FALSE]

\* addMedia as a plain INSERT into a table whose file_path is not UNIQUE.
addMedia_NoReplace(M, J, seq, path, file) ==
  [media |-> M \cup {NewMediaRow(seq + 1, path, file)},
   jobs  |-> J,
   seq   |-> seq + 1]

\* addMedia(mediaInfo): the tables after the statement.
addMedia(M, J, seq, path, file) ==
  LET old == ConflictingMedia(M, path)
  IN  [media |-> (M \ old) \cup {NewMediaRow(seq + 1, path, file)},
       jobs  |-> CascadeDelete(J, {m.id : m \in old}),
       seq   |-> seq + 1]

\* getMediaNeedingEncoding(100): ORDER BY file_size_bytes DESC LIMIT 100.
\* The result is the set of the rows; the caller walks it largest first.
RECURSIVE LargestFirst(_, _)
LargestFirst(S, n) ==
  IF S = {} \/ n = 0 THEN {}
  ELSE LET m == CHOOSE x \in S :
                  \A y \in S : \/ x.file_size_bytes > y.file_size_bytes
                               \/ /\ x.file_size_bytes = y.file_size_bytes
                                  /\ x.id <= y.id
       IN  {m} \cup LargestFirst(S \ {m}, n - 1)
getMediaNeedingEncoding(M, limit) ==
  LargestFirst({m \in M : m.needs_encoding}, limit)

NewJobRow(mediaId, priority, size) ==
  [media_id |-> mediaId, status |-> "queued", priority |-> priority,
   temp_file_path |-> NoPath, original_size_bytes |-> size,
   new_size_bytes |-> NoSize, error_message |-> NULL, retries |-> 0]

\* createEncodingJob(mediaId, priority)
createEncodingJob(J, seq, m, priority) ==
  [jobs |-> (seq + 1) :> NewJobRow(m.id, priority, m.file_size_bytes) @@ J,
   seq  |-> seq + 1]

\* updateJobStatus builds "SET status = ?, <updates, > <timestamp clause>
\* WHERE id = ?".  The comma after "status = ?" is always emitted, so the
\* statement only parses when the timestamp clause is not empty, that is for
\* the statuses completed and processing; db.prepare throws otherwise.
StatementParses_Always(status) == TRUE
StatementParses(status) == status \in {"completed", "processing"}

\* updateJobStatus(jobId, status, data): ok = FALSE when db.prepare throws.
\* An UPDATE of an id that has no row changes nothing and does not throw.
updateJobStatus(J, jobId, status, data) ==
  IF ~StatementParses(status) THEN [ok |-> FALSE, jobs |-> J]
  ELSE IF jobId \notin DOMAIN J THEN [ok |-> TRUE, jobs |-> J]
  ELSE [ok |-> TRUE,
        jobs |-> [J EXCEPT ![jobId] =
                    Merge([J[jobId] EXCEPT !.status = status], data)]]

\* markMediaAsEncoded that leaves needs_encoding as it is.
markMediaAsEncoded_KeepsNeed(M, mediaId, codec, size) ==
  {IF m.id = mediaId
     THEN [m EXCEPT !.encoded_previously = TRUE,
                    !.encoding_type = codec, !.file_size_bytes = size]
     ELSE m : m \in M}
\* markMediaAsEncoded(mediaId, newEncodingType, newSizeBytes)
markMediaAsEncoded(M, mediaId, codec, size) ==
  {IF m.id = mediaId
     THEN [m EXCEPT !.needs_encoding = FALSE, !.encoded_previously = TRUE,
                    !.encoding_type = codec, !.file_size_bytes = size]
     ELSE m : m \in M}

\* The JOIN media of getJobsByStatus / getJobById.
MediaOf(M, J, j) == {m \in M : m.id = J[j].media_id}
PathOf(M, J, j)  == (CHOOSE m \in MediaOf(M, J, j) : TRUE).file_path

\* getJobsByStatus(status, limit):
\* JOIN media, WHERE status = ?, ORDER BY priority DESC, created_at ASC, LIMIT.
\* The query with "ORDER BY created_at ASC" alone.
RECURSIVE FirstJobs_OldestFirst(_, _, _)
FirstJobs_OldestFirst(J, S, n) ==
  IF S = {} \/ n <= 0 THEN {}
  ELSE LET j == CHOOSE x \in S : \A y \in S : x <= y
       IN  {j} \cup FirstJobs_OldestFirst(J, S \ {j}, n - 1)
RECURSIVE FirstJobs(_, _, _)
FirstJobs(J, S, n) ==
  IF S = {} \/ n <= 0 THEN {}
  ELSE LET j == CHOOSE x \in S :
                  \A y \in S : \/ J[x].priority > J[y].priority
                               \/ /\ J[x].priority = J[y].priority
                                  /\ x <= y
       IN  {j} \cup FirstJobs(J, S \ {j}, n - 1)
\* The query without "WHERE j.status = ?".
getJobsByStatus_AnyStatus(M, J, status, limit) ==
  FirstJobs(J, {j \in DOMAIN J : MediaOf(M, J, j) # {}}, limit)
getJobsByStatus(M, J, status, limit) ==
  FirstJobs(J, {j \in DOMAIN J : /\ J[j].status = status
                                 /\ MediaOf(M, J, j) # {}}, limit)

\* getJobById(jobId): undefined when there is no such row.
getJobById(M, J, jobId) == jobId \in DOMAIN J /\ MediaOf(M, J, jobId) # {}

(* ------------------------------ scanner.js ----------------------------- *)
\* queueEncodingJobs(): one job per media row that needs encoding, created in
\* the order of getMediaNeedingEncoding (largest file first).
\* The loop walking the rows in id order.
RECURSIVE CreateJobsFor_ByMediaId(_, _, _)
CreateJobsFor_ByMediaId(J, seq, S) ==
  IF S = {} THEN [jobs |-> J, seq |-> seq]
  ELSE LET m == CHOOSE x \in S : \A y \in S : x.id <= y.id
           r == createEncodingJob(J, seq, m, m.file_size_bytes \div PriorityUnit)
       IN  CreateJobsFor_ByMediaId(r.jobs, r.seq, S \ {m})
RECURSIVE CreateJobsFor(_, _, _)
CreateJobsFor(J, seq, S) ==
  IF S = {} THEN [jobs |-> J, seq |-> seq]
  ELSE LET m == CHOOSE x \in LargestFirst(S, 1) : TRUE
           r == createEncodingJob(J, seq, m, m.file_size_bytes \div PriorityUnit)
       IN  CreateJobsFor(r.jobs, r.seq, S \ {m})
\* queueEncodingJobs that creates no job.
queueEncodingJobs_None(M, J, seq) == [jobs |-> J, seq |-> seq]
queueEncodingJobs(M, J, seq) ==
  CreateJobsFor(J, seq, getMediaNeedingEncoding(M, MediaLimit))

AdmissionFits(M, seq) ==
  seq + Cardinality(getMediaNeedingEncoding(M, MediaLimit)) <= MaxJobs

NoJob == [file_path |-> NoPath, original_size_bytes |-> 0]

\* The directories: root LibraryRoot holds the media files Paths and one
\* file whose extension is no media extension, every other root holds only
\* such a file.  NoRoot stands for "watcher = null".
Roots       == 1..NumRoots
NoRoot      == 0
LibraryRoot == 1
NotMedia    == 0
isMediaFile(entry) == entry \in Paths
NoResults   == [scanned |-> 0, added |-> 0, errors |-> 0, needsEncoding |-> 0]

\* scanner.js before the first scanLibrary call.
ScannerIdle ==
  /\ watcher = NoRoot
  /\ watching = {}
  /\ scanning = FALSE
  /\ scanQueue = <<>>
  /\ results = NoResults

\* Spec and SpecRestart represent the scheduler by the two signals it sends
\* (ScheduleActive, pauseQueue); its table and its triggers are followed in
\* SpecSched and stay as they are here.
SchedulerAside ==
  /\ schedule = <<>>
  /\ scheduleSeq = 0
  /\ scheduleJobs = <<>>
  /\ timers = {}
  /\ clock = <<0, 1>>
  /\ due = {}
  /\ schedulerUp = FALSE

Init ==
  /\ fileContent = [p \in Paths |-> IF p = 1 THEN OrigFile(p, "h264") ELSE NoFile]
  /\ media = {}
  /\ mediaSeq = 0
  /\ encoding_jobs = <<>>
  /\ jobSeq = 0
  /\ maxParallelJobs = DefaultMaxParallelJobs
  /\ activeJobs = 0
  /\ isQueuePaused = FALSE
  /\ activeJobsMap = {}
  /\ pollTimers = 1
  /\ proc = [j \in RowIds |-> "none"]
  /\ jobArg = [j \in RowIds |-> NoJob]
  /\ preEncode = [j \in RowIds |-> NoFile]
  /\ ScannerIdle
  /\ restartResult = "none"
  /\ SchedulerAside

\* The media files of the library directory, in name order.
RECURSIVE Listing(_)
Listing(n) ==
  IF n = 0 THEN <<>>
  ELSE IF fileContent[n] # NoFile THEN Append(Listing(n - 1), n)
  ELSE Listing(n - 1)
\* fs.readdir(dirPath)
readdir(root) ==
  IF root = LibraryRoot THEN Append(Listing(NumPaths), NotMedia)
  ELSE <<NotMedia>>

\* setupWatcher that does not close the existing watcher.
setupWatcher_NoClose(w, open, directoryPath) ==
  [watcher |-> directoryPath, watching |-> open \cup {directoryPath}]

\* setupWatcher(directoryPath): close() of the existing instance removes its
\* listeners at once; the new instance becomes "watcher".
setupWatcher(w, open, directoryPath) ==
  [watcher  |-> directoryPath,
   watching |-> (IF w # NoRoot THEN open \ {w} ELSE open)
                  \cup {directoryPath}]

\* scanLibrary up to the first await: setupWatcher, then readdir.  One
\* scanLibrary call is in progress at a time.
ScanStart(libraryPath) ==
  /\ ~scanning
  /\ LET sw == setupWatcher(watcher, watching, libraryPath)
     IN  watcher' = sw.watcher /\ watching' = sw.watching
  /\ scanning' = TRUE
  /\ results' = NoResults
  /\ scanQueue' = readdir(libraryPath)
  /\ UNCHANGED <<fileContent, storeVars, dispatchVars, runVars,
                 restartResult>>
  /\ UNCHANGED schedVars

\* processMediaFile(filePath, fileSize) after ffprobe answered for file:
\* the tables.  probed = ffprobe found a video stream.
processMediaFile(M, J, seq, path, file, probed) ==
  IF probed THEN addMedia(M, J, seq, path, file)
  ELSE [media |-> M, jobs |-> J, seq |-> seq]

\* The counters that count a file as added only when it needs encoding.
Count_SkipsAccepted(res, entry, outcome, file) ==
  IF outcome = "statError" THEN [res EXCEPT !.errors = @ + 1]
  ELSE IF ~isMediaFile(entry) THEN res
  ELSE IF outcome = "probeError"
       THEN [res EXCEPT !.scanned = @ + 1, !.errors = @ + 1]
  ELSE IF outcome = "noVideo" THEN [res EXCEPT !.scanned = @ + 1]
  ELSE IF needsEncoding(file.codec)
       THEN [res EXCEPT !.scanned = @ + 1, !.added = @ + 1,
                        !.needsEncoding = @ + 1]
       ELSE [res EXCEPT !.scanned = @ + 1]

\* The counters after one entry of the loop: a stat error is counted by the
\* catch around the loop, a probe error by the catch around processMediaFile.
Count(res, entry, outcome, file) ==
  IF outcome = "statError" THEN [res EXCEPT !.errors = @ + 1]
  ELSE IF ~isMediaFile(entry) THEN res
  ELSE IF outcome = "probeError"
       THEN [res EXCEPT !.scanned = @ + 1, !.errors = @ + 1]
  ELSE IF outcome = "noVideo" THEN [res EXCEPT !.scanned = @ + 1]
  ELSE [res EXCEPT !.scanned = @ + 1, !.added = @ + 1,
                   !.needsEncoding = IF needsEncoding(file.codec)
                                     THEN @ + 1 ELSE @]

\* One iteration of scanDirectory's loop, but for the counters.  The stat
\* of the entry is outside the per-file try, so a stat error ends the loop
\* over the directory; a file without a video stream and a probe error both
\* leave the tables as they are; an entry that is no media file is skipped.
ScanEntry(outcome) ==
  /\ scanning /\ scanQueue # <<>>
  /\ LET p == Head(scanQueue)
     IN  /\ isMediaFile(p) \/ outcome \in {"ok", "statError"}
         /\ IF isMediaFile(p)
            THEN LET r == processMediaFile(media, encoding_jobs, mediaSeq, p,
                                           fileContent[p], outcome = "ok")
                 IN  /\ r.seq <= MaxMedia
                     /\ media' = r.media
                     /\ encoding_jobs' = r.jobs
                     /\ mediaSeq' = r.seq
            ELSE UNCHANGED <<media, encoding_jobs, mediaSeq>>
         /\ scanQueue' = IF outcome = "statError" THEN <<>>
                         ELSE Tail(scanQueue)
  /\ UNCHANGED <<fileContent, jobSeq, dispatchVars, runVars, watcher,
                 watching, scanning, restartResult>>
  /\ UNCHANGED schedVars

\* The iteration as Spec follows it: the counters, local to the scanLibrary
\* call and read by nothing but its caller, are followed in SpecScan.
ScanFile ==
  /\ \E outcome \in {"ok", "noVideo", "probeError", "statError"} :
       ScanEntry(outcome)
  /\ UNCHANGED results

\* The iteration with its counters.
ScanFileCounted(outcome) ==
  /\ ScanEntry(outcome)
  /\ results' = Count(results, Head(scanQueue), outcome,
                      IF isMediaFile(Head(scanQueue))
                      THEN fileContent[Head(scanQueue)] ELSE NoFile)

\* scanLibrary after scanDirectory returned: queueEncodingJobs(), then
\* "return results", which ends the life of the counters.
ScanFinish ==
  /\ scanning /\ scanQueue = <<>>
  /\ AdmissionFits(media, jobSeq)
  /\ LET r == queueEncodingJobs(media, encoding_jobs, jobSeq)
     IN  encoding_jobs' = r.jobs /\ jobSeq' = r.seq
  /\ scanning' = FALSE
  /\ results' = NoResults
  /\ UNCHANGED <<fileContent, media, mediaSeq, dispatchVars, runVars,
                 watcher, watching, scanQueue, restartResult>>
  /\ UNCHANGED schedVars

\* A file appears under the watched root and the watcher's 'add' handler
\* runs: processMediaFile, then queueEncodingJobs.  A file without a video
\* stream is not recorded and queueEncodingJobs still runs; a stat or probe
\* error skips both.
WatchAdd(p) ==
  /\ LibraryRoot \in watching /\ fileContent[p] = NoFile
  /\ \E codec \in FileCodecs, outcome \in {"ok", "noVideo", "error"} :
       /\ fileContent' = [fileContent EXCEPT ![p] = OrigFile(p, codec)]
       /\ IF outcome = "error" THEN UNCHANGED storeVars
          ELSE LET a == processMediaFile(media, encoding_jobs, mediaSeq, p,
                                         OrigFile(p, codec), outcome = "ok")
                   r == queueEncodingJobs(a.media, a.jobs, jobSeq)
               IN  /\ a.seq <= MaxMedia
                   /\ AdmissionFits(a.media, jobSeq)
                   /\ media' = a.media /\ mediaSeq' = a.seq
                   /\ encoding_jobs' = r.jobs /\ jobSeq' = r.seq
  /\ UNCHANGED <<dispatchVars, runVars, scanVars, restartResult>>
  /\ UNCHANGED schedVars

\* The watcher's 'change' handler: processMediaFile only.
WatchChange(p) ==
  /\ LibraryRoot \in watching /\ fileContent[p] # NoFile
  /\ \E probed \in BOOLEAN :
       LET a == processMediaFile(media, encoding_jobs, mediaSeq, p,
                                 fileContent[p], probed)
       IN  /\ a.seq <= MaxMedia
           /\ media' = a.media /\ mediaSeq' = a.seq /\ encoding_jobs' = a.jobs
  /\ UNCHANGED <<fileContent, jobSeq, dispatchVars, runVars, scanVars,
                 restartResult>>
  /\ UNCHANGED schedVars

(* ------------------------------ encoder.js ----------------------------- *)
\* tempFilePath of startEncodingJob: <tmpdir>/plex-encoder/<basename of the
\* source without extension>_hevc_temp<ext>.  Paths 1 and 2 have different
\* file names; path p + 2 is a file of the same name in another directory.
tempFilePath(path) == ((path - 1) % 2) + 1

\* The in-memory and on-disk state a handler reads and writes.
Now == [jobs |-> encoding_jobs, media |-> media, files |-> fileContent,
        active |-> activeJobs, map |-> activeJobsMap]
Commit(s) ==
  /\ encoding_jobs' = s.jobs
  /\ media' = s.media
  /\ fileContent' = s.files
  /\ activeJobs' = s.active
  /\ activeJobsMap' = s.map

\* processEncodingQueue without its "if (isQueuePaused)" early return.
QueuedToStart_IgnorePause(paused) ==
  LET availableSlots == maxParallelJobs - activeJobs
  IN  IF availableSlots <= 0 THEN {}
      ELSE getJobsByStatus(media, encoding_jobs, "queued", availableSlots)

\* The jobs one call of processEncodingQueue starts.
QueuedToStart(paused) ==
  IF paused THEN {}
  ELSE LET availableSlots == maxParallelJobs - activeJobs
       IN  IF availableSlots <= 0 THEN {}
           ELSE getJobsByStatus(media, encoding_jobs, "queued", availableSlots)

\* startEncodingJob up to its first await, for each job of the pass:
\* activeJobs++ and updateJobStatus(job.id, 'processing').
RECURSIVE MarkProcessing(_, _)
MarkProcessing(J, S) ==
  IF S = {} THEN J
  ELSE LET j == CHOOSE x \in S : TRUE
       IN  MarkProcessing(updateJobStatus(J, j, "processing", <<>>).jobs,
                          S \ {j})

\* setTimeout(() => processEncodingQueue(), ...): one more pending timer.
Armed(n) == IF n < MaxTimers THEN n + 1 ELSE MaxTimers

\* processEncodingQueue(): the whole pass runs without an await.  Every
\* branch ends by arming a timer; the callers count it.
processEncodingQueue(paused) ==
  LET S == QueuedToStart(paused)
  IN  /\ encoding_jobs' = MarkProcessing(encoding_jobs, S)
      /\ activeJobs' = activeJobs + Cardinality(S)
      /\ proc' = [j \in RowIds |-> IF j \in S THEN "ensureDir" ELSE proc[j]]
      /\ jobArg' = [j \in RowIds |->
            IF j \in S
            THEN [file_path |-> PathOf(media, encoding_jobs, j),
                  original_size_bytes |-> encoding_jobs[j].original_size_bytes]
            ELSE jobArg[j]]
      /\ preEncode' = [j \in RowIds |->
            IF j \in S THEN fileContent[PathOf(media, encoding_jobs, j)]
            ELSE preEncode[j]]

\* A timer of processEncodingQueue fires: the pass runs and arms the timer
\* that replaces it.
Poll ==
  /\ pollTimers > 0
  /\ processEncodingQueue(isQueuePaused)
  /\ UNCHANGED <<fileContent, media, mediaSeq, jobSeq, maxParallelJobs,
                 isQueuePaused, pollTimers, activeJobsMap, scanVars,
                 restartResult>>
  /\ UNCHANGED schedVars

\* "updateJobStatus(id, 'failed', {error_message}); activeJobs--;
\* activeJobsMap.delete(id)" of the catch blocks and of the error paths: when
\* updateJobStatus throws, the two statements after it do not run.
MarkFailed(s, jobId, msg) ==
  LET u == updateJobStatus(s.jobs, jobId, "failed", [error_message |-> msg])
  IN  IF u.ok
      THEN [s EXCEPT !.jobs = u.jobs, !.active = @ - 1, !.map = @ \ {jobId}]
      ELSE s

\* startEncodingJob after "await fs.ensureDir(tempDir)".
AfterEnsureDir(j) ==
  /\ proc[j] = "ensureDir"
  /\ \E made \in BOOLEAN :
       IF made
       THEN /\ encoding_jobs' = updateJobStatus(encoding_jobs, j, "processing",
                  [temp_file_path |-> tempFilePath(jobArg[j].file_path)]).jobs
            /\ proc' = [proc EXCEPT ![j] = "gpuInfo"]
            /\ activeJobs' = activeJobs
       ELSE \* catch of startEncodingJob: no activeJobsMap.delete here
            LET s == MarkFailed(Now, j, "ensureDir failed")
            IN  /\ encoding_jobs' = s.jobs
                /\ activeJobs' = s.active
                /\ proc' = [proc EXCEPT ![j] = "dirFailed"]
  /\ UNCHANGED <<fileContent, media, mediaSeq, jobSeq, maxParallelJobs,
                 isQueuePaused, pollTimers, activeJobsMap, jobArg, preEncode,
                 scanVars,
                 restartResult>>
  /\ UNCHANGED schedVars

\* startEncodingJob after "await getGpuInfo()": startFFmpegEncoding runs to
\* its end, then activeJobsMap.set(job.id, encodingProcess).  When spawn
\* throws, the catch of startFFmpegEncoding releases the slot and rejects a
\* promise nobody awaits; the job row is not touched.
AfterGpuInfo(j) ==
  /\ proc[j] = "gpuInfo"
  /\ \E spawned \in BOOLEAN :
       /\ activeJobs' = IF spawned THEN activeJobs ELSE activeJobs - 1
       /\ proc' = [proc EXCEPT ![j] = IF spawned THEN "running"
                                      ELSE "spawnThrew"]
  /\ activeJobsMap' = activeJobsMap \cup {j}
  /\ UNCHANGED <<fileContent, storeVars, maxParallelJobs, isQueuePaused,
                 pollTimers, jobArg, preEncode, scanVars, restartResult>>
  /\ UNCHANGED schedVars

\* ffmpegProcess.on('error')
ProcError(j) ==
  /\ proc[j] = "running"
  /\ Commit(MarkFailed(Now, j, "Process error"))
  /\ proc' = [proc EXCEPT ![j] = "procError"]
  /\ UNCHANGED <<mediaSeq, jobSeq, maxParallelJobs, isQueuePaused, pollTimers,
                 jobArg,
                 preEncode, scanVars, restartResult>>
  /\ UNCHANGED schedVars

\* replaceOriginalFile(originalPath, tempPath, jobId) with tempFile the file
\* ffmpeg left at tempPath: threw = the call rejects.
replaceOriginalFile(s, originalPath, tempFile, jobId) ==
  IF tempFile.size = 0
  THEN [threw |-> TRUE, s |-> MarkFailed(s, jobId, "Encoded file is empty")]
  ELSE LET moved == [s EXCEPT !.files[originalPath] = tempFile]
       IN  IF ~getJobById(moved.media, moved.jobs, jobId)
           THEN \* job is undefined: job.media_id throws
                [threw |-> TRUE,
                 s |-> MarkFailed(moved, jobId, "Error replacing original file")]
           ELSE LET marked == markMediaAsEncoded(moved.media,
                                moved.jobs[jobId].media_id,
                                tempFile.codec, tempFile.size)
                    u == updateJobStatus(moved.jobs, jobId, "completed", <<>>)
                IN  IF u.ok
                    THEN [threw |-> FALSE,
                          s |-> [moved EXCEPT !.media = marked,
                                              !.jobs = u.jobs,
                                              !.active = @ - 1,
                                              !.map = @ \ {jobId}]]
                    ELSE [threw |-> TRUE,
                          s |-> MarkFailed([moved EXCEPT !.media = marked],
                                  jobId, "Error replacing original file")]

\* ffmpegProcess.on('close', code) with tempFile the output at outputPath.
CloseHandler(s, j, code, tempFile) ==
  IF code # 0
  THEN MarkFailed(s, j, "FFmpeg encoding failed")
  ELSE LET u == updateJobStatus(s.jobs, j, "replacing_file",
                  [new_size_bytes |-> tempFile.size])
       IN  IF ~u.ok THEN MarkFailed(s, j, "Error finalizing")
           ELSE LET r == replaceOriginalFile([s EXCEPT !.jobs = u.jobs],
                           jobArg[j].file_path, tempFile, j)
                IN  IF r.threw THEN MarkFailed(r.s, j, "Error finalizing")
                    ELSE r.s

\* The output ffmpeg leaves for job j.
Output(j, empty) ==
  [codec |-> "hevc",
   size |-> IF empty THEN 0 ELSE EncodedSize(jobArg[j].original_size_bytes),
   writer |-> j]

\* The encoder process of job j exits.
ProcClose(j) ==
  /\ proc[j] = "running"
  /\ \E end \in {"closedFail", "closedOk", "closedEmpty"} :
       /\ Commit(CloseHandler(Now, j, IF end = "closedFail" THEN 1 ELSE 0,
                              Output(j, end = "closedEmpty")))
       /\ proc' = [proc EXCEPT ![j] = end]
  /\ UNCHANGED <<mediaSeq, jobSeq, maxParallelJobs, isQueuePaused, pollTimers,
                 jobArg,
                 preEncode, scanVars, restartResult>>
  /\ UNCHANGED schedVars

\* restartJob without its "job.status !== 'failed'" check.
RestartOutcome_NoStatusCheck(M, J, jobId) ==
  IF ~getJobById(M, J, jobId) THEN "not_found"
  ELSE IF updateJobStatus(J, jobId, "queued",
            [retries |-> J[jobId].retries + 1, error_message |-> NULL]).ok
       THEN "ok" ELSE "store_error"

\* restartJob(jobId): what the call returns or throws.
RestartOutcome(M, J, jobId) ==
  IF ~getJobById(M, J, jobId) THEN "not_found"
  ELSE IF J[jobId].status # "failed" THEN "invalid_state"
  ELSE IF updateJobStatus(J, jobId, "queued",
            [retries |-> J[jobId].retries + 1, error_message |-> NULL]).ok
       THEN "ok" ELSE "store_error"

restartJob(jobId) ==
  /\ restartResult' = RestartOutcome(media, encoding_jobs, jobId)
  /\ encoding_jobs' =
       IF restartResult' \in {"ok", "store_error"}
       THEN updateJobStatus(encoding_jobs, jobId, "queued",
              [retries |-> encoding_jobs[jobId].retries + 1,
               error_message |-> NULL]).jobs
       ELSE encoding_jobs
  /\ UNCHANGED <<fileContent, media, mediaSeq, jobSeq, dispatchVars, runVars,
                 scanVars>>
  /\ UNCHANGED schedVars

pauseQueue ==
  /\ isQueuePaused' = TRUE
  /\ UNCHANGED <<fileContent, storeVars, maxParallelJobs, activeJobs,
                 activeJobsMap, pollTimers, runVars, scanVars,
                 restartResult>>
  /\ UNCHANGED schedVars

\* resumeQueue() that clears the flag and leaves the pass to the timer.
resumeQueue_FlagOnly ==
  /\ isQueuePaused' = FALSE
  /\ UNCHANGED <<fileContent, storeVars, maxParallelJobs, activeJobs,
                 activeJobsMap, pollTimers, runVars, scanVars,
                 restartResult>>
  /\ UNCHANGED schedVars

\* resumeQueue(): clears the flag and calls processEncodingQueue().
resumeQueue ==
  /\ isQueuePaused' = FALSE
  /\ processEncodingQueue(FALSE)
  /\ pollTimers' = Armed(pollTimers)
  /\ UNCHANGED <<fileContent, media, mediaSeq, jobSeq, maxParallelJobs,
                 activeJobsMap, scanVars, restartResult>>
  /\ UNCHANGED schedVars

\* setMaxParallelJobs without Math.max.
setMaxParallelJobs_NoClamp(count) == count
setMaxParallelJobs(count) == Max(1, count)

\* The scheduler finds a rule active (its start trigger fires, or
\* checkIfScheduleShouldBeActive finds the time inside the window):
\* resumeQueue(); setMaxParallelJobs(max_parallel_jobs).
ScheduleActive(count) ==
  /\ isQueuePaused' = FALSE
  /\ processEncodingQueue(FALSE)
  /\ pollTimers' = Armed(pollTimers)
  /\ maxParallelJobs' = setMaxParallelJobs(count)
  /\ UNCHANGED <<fileContent, media, mediaSeq, jobSeq, activeJobsMap,
                 scanVars, restartResult>>
  /\ UNCHANGED schedVars

\* getEncodingQueue(): the lists the window shows.  getJobsByStatus is called
\* with its default limit for processing, queued and failed, and with 10 for
\* completed; every entry carries the columns of its row.
DefaultJobLimit == 20
CompletedLimit  == 10
Entries(J, S) == {[id |-> j, row |-> J[j]] : j \in S}
getEncodingQueue(M, J, paused, limit) ==
  [processing |-> Entries(J, getJobsByStatus(M, J, "processing", DefaultJobLimit)),
   queued     |-> Entries(J, getJobsByStatus(M, J, "queued", DefaultJobLimit)),
   completed  |-> Entries(J, getJobsByStatus(M, J, "completed", CompletedLimit)),
   failed     |-> Entries(J, getJobsByStatus(M, J, "failed", DefaultJobLimit)),
   paused     |-> paused,
   maxParallelJobs |-> limit]

\* initializeEncoder(): runs at launch, and again whenever the window is
\* re-created in a running process (main.js, 'activate').
initializeEncoder ==
  /\ pollTimers' = Armed(pollTimers)
  /\ UNCHANGED <<fileContent, storeVars, maxParallelJobs, activeJobs,
                 isQueuePaused, activeJobsMap, runVars, scanVars,
                 restartResult>>
  /\ UNCHANGED schedVars

Next ==
  \/ ScanStart(LibraryRoot)
  \/ ScanFile
  \/ ScanFinish
  \/ \E p \in Paths : WatchAdd(p)
  \/ \E p \in Paths : WatchChange(p)
  \/ Poll
  \/ \E j \in JobIds : AfterEnsureDir(j)
  \/ \E j \in JobIds : AfterGpuInfo(j)
  \/ \E j \in JobIds : ProcError(j)
  \/ \E j \in JobIds : ProcClose(j)
  \/ \E id \in 1..(MaxJobs + 1) : restartJob(id)
  \/ pauseQueue
  \/ resumeQueue
  \/ \E count \in Counts : ScheduleActive(count)
  \/ initializeEncoder

Spec == Init /\ [][Next]_vars

(* ---------------- restartJob on a persisted encoding_jobs table -------- *)
\* The application opens an existing database: the rows of encoding_jobs
\* are whatever earlier sessions left, in any status of the state machine.
PersistedJobRows ==
  {[NewJobRow(1, OrigSize(1) \div PriorityUnit, OrigSize(1))
      EXCEPT !.status = st, !.retries = r, !.error_message = e] :
     st \in Statuses, r \in 0..MaxRetries, e \in {NULL, "Process error"}}

InitRestart ==
  /\ fileContent = [p \in Paths |-> IF p = 1 THEN OrigFile(p, "h264") ELSE NoFile]
  /\ media = {NewMediaRow(1, 1, OrigFile(1, "h264"))}
  /\ mediaSeq = 1
  /\ encoding_jobs \in [JobIds -> PersistedJobRows]
  /\ jobSeq = MaxJobs
  /\ maxParallelJobs = DefaultMaxParallelJobs
  /\ activeJobs = 0
  /\ isQueuePaused = FALSE
  /\ activeJobsMap = {}
  /\ pollTimers = 1
  /\ proc = [j \in RowIds |-> "none"]
  /\ jobArg = [j \in RowIds |-> NoJob]
  /\ preEncode = [j \in RowIds |-> NoFile]
  /\ ScannerIdle
  /\ restartResult = "none"
  /\ SchedulerAside

NextRestart ==
  \/ \E id \in 1..(MaxJobs + 1) : restartJob(id)
  \/ Poll
  \/ pauseQueue
  \/ resumeQueue
  \/ \E count \in Counts : ScheduleActive(count)

SpecRestart == InitRestart /\ [][NextRestart]_vars

(* ---------------- the encoder on a persisted table ---------------------- *)
\* The application opens an existing database and works on it: passes start
\* the queued jobs, their encoders run and end, jobs are restarted, the
\* queue is paused, resumed and given limits.
NextRun ==
  \/ Poll
  \/ \E j \in JobIds : AfterEnsureDir(j)
  \/ \E j \in JobIds : AfterGpuInfo(j)
  \/ \E j \in JobIds : ProcError(j)
  \/ \E j \in JobIds : ProcClose(j)
  \/ \E id \in 1..(MaxJobs + 1) : restartJob(id)
  \/ pauseQueue
  \/ resumeQueue
  \/ \E count \in Counts : ScheduleActive(count)

SpecRun == InitRestart /\ [][NextRun]_vars

(* ---------------- the queue two admissions built ------------------------ *)
\* A library that grew: one file was scanned and admitted, the other file
\* appeared later and a second admission ran over both media rows.  The
\* encoder then works on the queue; no further file arrives.
GrownLibrary(first, second) ==
  LET a  == NewMediaRow(1, first, OrigFile(first, "h264"))
      b  == NewMediaRow(2, second, OrigFile(second, "h264"))
      r1 == queueEncodingJobs({a}, <<>>, 0)
      r2 == queueEncodingJobs({a, b}, r1.jobs, r1.seq)
  IN  [media |-> {a, b}, jobs |-> r2.jobs, seq |-> r2.seq]

InitQueue ==
  /\ fileContent = [p \in Paths |-> OrigFile(p, "h264")]
  /\ \E first \in Paths, second \in Paths :
       /\ first # second
       /\ media = GrownLibrary(first, second).media
       /\ encoding_jobs = GrownLibrary(first, second).jobs
       /\ jobSeq = GrownLibrary(first, second).seq
  /\ mediaSeq = 2
  /\ maxParallelJobs \in Counts \ {0}
  /\ activeJobs = 0
  /\ isQueuePaused = FALSE
  /\ activeJobsMap = {}
  /\ pollTimers = 1
  /\ proc = [j \in RowIds |-> "none"]
  /\ jobArg = [j \in RowIds |-> NoJob]
  /\ preEncode = [j \in RowIds |-> NoFile]
  /\ ScannerIdle
  /\ restartResult = "none"
  /\ SchedulerAside

NextQueue ==
  \/ Poll
  \/ \E j \in RowIds : AfterEnsureDir(j)
  \/ \E j \in RowIds : AfterGpuInfo(j)
  \/ \E j \in RowIds : ProcError(j)
  \/ \E j \in RowIds : ProcClose(j)
  \/ pauseQueue
  \/ resumeQueue
  \/ \E count \in Counts : ScheduleActive(count)

SpecQueue == InitQueue /\ [][NextQueue]_vars

\* The same under the scheduling of the event loop: a pending timer fires,
\* an awaited promise settles and its continuation runs, and every encoder
\* process ends ('error' or 'close').
LiveQueue ==
  /\ SpecQueue
  /\ WF_vars(Poll)
  /\ \A j \in RowIds : /\ WF_vars(AfterEnsureDir(j))
                        /\ WF_vars(AfterGpuInfo(j))
                        /\ WF_vars(ProcError(j) \/ ProcClose(j))

(* ---------------- a table of failed jobs --------------------------------- *)
\* The application opens a database in which every job of one file has
\* failed: up to one row more than the default limit of getJobsByStatus.
\* The window asks for the queue, retries jobs, pauses and resumes.
ManyRows == DefaultJobLimit + 1
FailedTable(n) ==
  [j \in 1..n |->
     [NewJobRow(1, OrigSize(1) \div PriorityUnit, OrigSize(1))
        EXCEPT !.status = "failed", !.error_message = "Process error"]]

InitFailed ==
  /\ fileContent = [p \in Paths |-> IF p = 1 THEN OrigFile(p, "h264") ELSE NoFile]
  /\ media = {NewMediaRow(1, 1, OrigFile(1, "h264"))}
  /\ mediaSeq = 1
  /\ \E n \in 0..ManyRows : encoding_jobs = FailedTable(n) /\ jobSeq = n
  /\ maxParallelJobs = DefaultMaxParallelJobs
  /\ activeJobs = 0
  /\ isQueuePaused = FALSE
  /\ activeJobsMap = {}
  /\ pollTimers = 1
  /\ proc = [j \in RowIds |-> "none"]
  /\ jobArg = [j \in RowIds |-> NoJob]
  /\ preEncode = [j \in RowIds |-> NoFile]
  /\ ScannerIdle
  /\ restartResult = "none"
  /\ SchedulerAside

NextFailed ==
  \/ \E id \in 1..(ManyRows + 1) : restartJob(id)
  \/ Poll
  \/ pauseQueue
  \/ resumeQueue
  \/ \E count \in Counts : ScheduleActive(count)

SpecFailed == InitFailed /\ [][NextFailed]_vars

(* ---------------- scanner.js on its own -------------------------------- *)
\* The library holds any files (h264, hevc, or a stream tagged HEVC); scans
\* are asked for any root, and the watcher reports new and changed files.
ScanCodecs == {"h264", "hevc", "HEVC"}
InitScan ==
  /\ fileContent \in [Paths -> {NoFile}]
                    \cup {[p \in Paths |-> OrigFile(p, c[p])] :
                             c \in [Paths -> ScanCodecs]}
                    \cup {[p \in Paths |-> IF p = 1 THEN OrigFile(p, c)
                                            ELSE NoFile] : c \in ScanCodecs}
  /\ media = {}
  /\ mediaSeq = 0
  /\ encoding_jobs = <<>>
  /\ jobSeq = 0
  /\ maxParallelJobs = DefaultMaxParallelJobs
  /\ activeJobs = 0
  /\ isQueuePaused = FALSE
  /\ activeJobsMap = {}
  /\ pollTimers = 1
  /\ proc = [j \in RowIds |-> "none"]
  /\ jobArg = [j \in RowIds |-> NoJob]
  /\ preEncode = [j \in RowIds |-> NoFile]
  /\ ScannerIdle
  /\ restartResult = "none"
  /\ SchedulerAside

NextScan ==
  \/ \E root \in Roots : ScanStart(root)
  \/ \E outcome \in {"ok", "noVideo", "probeError", "statError"} :
       ScanFileCounted(outcome)
  \/ ScanFinish
  \/ \E p \in Paths : WatchAdd(p)
  \/ \E p \in Paths : WatchChange(p)

SpecScan == InitScan /\ [][NextScan]_vars

(* ---------------- the scanner after a completed job --------------------- *)
\* The database and the library as replaceOriginalFile leaves them when it
\* runs to its end for job 1 of file 1: the encoded file in place, the media
\* row marked, the job completed.  The other file is absent or not yet
\* recorded; scans and watcher events follow.
EncodedFile == [codec |-> "hevc", size |-> EncodedSize(OrigSize(1)), writer |-> 1]
InitEncoded ==
  /\ \E other \in {NoFile} \cup {OrigFile(NumPaths, c) : c \in ScanCodecs} :
       fileContent = [p \in Paths |-> IF p = 1 THEN EncodedFile
                                      ELSE IF p = NumPaths THEN other
                                      ELSE NoFile]
  /\ media = markMediaAsEncoded({NewMediaRow(1, 1, OrigFile(1, "h264"))}, 1,
                                EncodedFile.codec, EncodedFile.size)
  /\ mediaSeq = 1
  /\ encoding_jobs =
       1 :> [NewJobRow(1, OrigSize(1) \div PriorityUnit, OrigSize(1))
               EXCEPT !.status = "completed",
                      !.temp_file_path = tempFilePath(1)]
  /\ jobSeq = 1
  /\ maxParallelJobs = DefaultMaxParallelJobs
  /\ activeJobs = 0
  /\ isQueuePaused = FALSE
  /\ activeJobsMap = {}
  /\ pollTimers = 1
  /\ proc = [j \in RowIds |-> "none"]
  /\ jobArg = [j \in RowIds |-> NoJob]
  /\ preEncode = [j \in RowIds |-> NoFile]
  /\ ScannerIdle
  /\ restartResult = "none"
  /\ SchedulerAside

SpecEncoded == InitEncoded /\ [][NextScan]_vars

(* ---------------- the exported operations of database.js --------------- *)
\* The store on its own: its exported functions called in any order with
\* any arguments.  codec_name of a probe is any string; replaceOriginalFile
\* passes 'unknown' when the output has no video stream.
StoreCodecs == {"h264", "hevc", "HEVC", "unknown"}

StoreAddMedia(p, codec) ==
  /\ mediaSeq < MaxMedia
  /\ LET r == addMedia(media, encoding_jobs, mediaSeq, p, OrigFile(p, codec))
     IN  media' = r.media /\ encoding_jobs' = r.jobs /\ mediaSeq' = r.seq
  /\ UNCHANGED <<fileContent, jobSeq, dispatchVars, runVars, scanVars,
                 restartResult>>
  /\ UNCHANGED schedVars

\* createEncodingJob(mediaId, priority): throws when the media row is missing.
StoreCreateJob(mediaId, priority) ==
  /\ jobSeq < MaxJobs
  /\ \E m \in media :
       /\ m.id = mediaId
       /\ LET r == createEncodingJob(encoding_jobs, jobSeq, m, priority)
          IN  encoding_jobs' = r.jobs /\ jobSeq' = r.seq
  /\ UNCHANGED <<fileContent, media, mediaSeq, dispatchVars, runVars,
                 scanVars, restartResult>>
  /\ UNCHANGED schedVars

StoreMarkEncoded(mediaId, codec) ==
  /\ \E m \in media :
       /\ m.id = mediaId
       /\ media' = markMediaAsEncoded(media, mediaId, codec,
                                      EncodedSize(OrigSize(m.file_path)))
  /\ UNCHANGED <<fileContent, mediaSeq, encoding_jobs, jobSeq, dispatchVars,
                 runVars, scanVars, restartResult>>
  /\ UNCHANGED schedVars

NextStore ==
  \/ \E p \in Paths, codec \in StoreCodecs : StoreAddMedia(p, codec)
  \/ \E id \in 1..MaxMedia, priority \in 0..1 : StoreCreateJob(id, priority)
  \/ \E id \in 1..MaxMedia, codec \in StoreCodecs : StoreMarkEncoded(id, codec)

SpecStore == Init /\ [][NextStore]_vars

(* ---------------- updateJobStatus on a persisted table ------------------ *)
\* updateJobStatus called with any id, any status of the state machine and
\* the field sets its call sites pass: none, a scratch path, an error text,
\* a retry count with the error text cleared, a new size.
PartialFields ==
  {<<>>,
   [temp_file_path |-> tempFilePath(1)],
   [error_message |-> "Process error"],
   [retries |-> MaxRetries, error_message |-> NULL],
   [new_size_bytes |-> EncodedSize(OrigSize(1))]}

StoreUpdateJob(jobId, status, data) ==
  /\ encoding_jobs' = updateJobStatus(encoding_jobs, jobId, status, data).jobs
  /\ UNCHANGED <<fileContent, media, mediaSeq, jobSeq, dispatchVars, runVars,
                 scanVars, restartResult>>
  /\ UNCHANGED schedVars

NextUpdate ==
  \E id \in 1..(MaxJobs + 1), status \in Statuses, data \in PartialFields :
    StoreUpdateJob(id, status, data)

SpecUpdate == InitRestart /\ [][NextUpdate]_vars

(* ------------------------------ scheduler.js --------------------------- *)
\* Strings are sequences of UTF-16 code units: '0'..'9' are 48..57, ':' 58.
Colon == 58
NaN   == -1
Digit(n) == 48 + n
\* n.toString().padStart(2, '0') for 0 <= n <= 59
padStart2(n) == <<Digit(n \div 10), Digit(n % 10)>>
HHMM(h, m) == padStart2(h) \o <<Colon>> \o padStart2(m)

\* a <= b of two JavaScript strings: code unit by code unit, a proper
\* prefix being the smaller.
RECURSIVE StrLE(_, _)
StrLE(a, b) ==
  IF a = <<>> THEN TRUE
  ELSE IF b = <<>> THEN FALSE
  ELSE IF Head(a) # Head(b) THEN Head(a) < Head(b)
  ELSE StrLE(Tail(a), Tail(b))

\* str.split(':'): the fields between the colons.
RECURSIVE split(_, _)
split(str, field) ==
  IF str = <<>> THEN <<field>>
  ELSE IF Head(str) = Colon THEN <<field>> \o split(Tail(str), <<>>)
  ELSE split(Tail(str), Append(field, Head(str)))

\* Number(field): the value of a run of decimal digits, 0 for '', else NaN.
RECURSIVE DigitsValue(_, _)
DigitsValue(field, acc) ==
  IF field = <<>> THEN acc
  ELSE DigitsValue(Tail(field), 10 * acc + (Head(field) - 48))
ToNumber(field) ==
  IF \A i \in 1..Len(field) : field[i] \in 48..57
  THEN DigitsValue(field, 0) ELSE NaN

\* const [hour, minute] = time.split(':').map(Number)
ParseTime(time) ==
  LET f == split(time, <<>>)
  IN  <<ToNumber(f[1]), IF Len(f) >= 2 THEN ToNumber(f[2]) ELSE NaN>>

\* The instants of a day at which the clock is looked at, and the rules the
\* configuration surface sends: weekday sets, time windows, limits.
Days       == 0..(NumDays - 1)
Instants   == << <<0, 0>>, <<12, 0>>, <<23, 59>> >>
\* windows: the whole day, and one whose start is after its end
RuleWindows == {<<HHMM(0, 0), HHMM(23, 59)>>, <<HHMM(23, 59), HHMM(0, 0)>>}
RuleDays   == {{0}, Days}
RuleLimits == {MaxCount + 1}
RuleIds    == 1..MaxRules
DefaultRuleLimit == 2
\* a rule whose start is no time of day
MalformedRule ==
  [days_of_week |-> Days, start_time |-> HHMM(25, 0), end_time |-> HHMM(23, 59),
   max_parallel_jobs |-> MaxCount + 1, active |-> 1]
\* a rule sent without a limit
UnlimitedRule ==
  [days_of_week |-> Days, start_time |-> HHMM(0, 0), end_time |-> HHMM(23, 59),
   max_parallel_jobs |-> 0, active |-> 1]
RuleData ==
  {[days_of_week |-> d, start_time |-> w[1], end_time |-> w[2],
    max_parallel_jobs |-> l, active |-> a] :
     d \in RuleDays, w \in RuleWindows, l \in RuleLimits, a \in {0, 1}}
  \cup {MalformedRule, UnlimitedRule}
\* The row createScheduleTable inserts into an empty table.
DefaultRow ==
  [days_of_week |-> Days, start_time |-> HHMM(0, 0), end_time |-> HHMM(23, 59),
   max_parallel_jobs |-> 2, active |-> 1]

\* new Date(): getDay() and the zero-padded HH:MM of now.
day == clock[1]
currentTime == HHMM(Instants[clock[2]][1], Instants[clock[2]][2])

\* The state the scheduler's handlers read and write.
Here ==
  [paused |-> isQueuePaused, limit |-> maxParallelJobs,
   jobs |-> encoding_jobs, active |-> activeJobs,
   proc |-> proc, jobArg |-> jobArg, preEncode |-> preEncode,
   loops |-> pollTimers,
   sj |-> scheduleJobs, timers |-> timers, due |-> due]
CommitSched(s) ==
  /\ isQueuePaused' = s.paused
  /\ maxParallelJobs' = s.limit
  /\ encoding_jobs' = s.jobs
  /\ activeJobs' = s.active
  /\ proc' = s.proc
  /\ jobArg' = s.jobArg
  /\ preEncode' = s.preEncode
  /\ pollTimers' = s.loops
  /\ scheduleJobs' = s.sj
  /\ timers' = s.timers
  /\ due' = s.due

\* processEncodingQueue() called from a scheduler handler, in state s.
PassOn(s) ==
  IF s.paused THEN [s EXCEPT !.loops = Armed(@)]
  ELSE LET availableSlots == s.limit - s.active
           S == IF availableSlots <= 0 THEN {}
                ELSE getJobsByStatus(media, s.jobs, "queued", availableSlots)
       IN  [s EXCEPT
              !.loops = Armed(@),
              !.jobs = MarkProcessing(s.jobs, S),
              !.active = @ + Cardinality(S),
              !.proc = [j \in RowIds |-> IF j \in S THEN "ensureDir"
                                         ELSE s.proc[j]],
              !.jobArg = [j \in RowIds |->
                 IF j \in S
                 THEN [file_path |-> PathOf(media, s.jobs, j),
                       original_size_bytes |-> s.jobs[j].original_size_bytes]
                 ELSE s.jobArg[j]],
              !.preEncode = [j \in RowIds |->
                 IF j \in S THEN fileContent[PathOf(media, s.jobs, j)]
                 ELSE s.preEncode[j]]]
resumeQueueOn(s) == PassOn([s EXCEPT !.paused = FALSE])
pauseQueueOn(s)  == [s EXCEPT !.paused = TRUE]
setMaxParallelJobsOn(s, count) == [s EXCEPT !.limit = setMaxParallelJobs(count)]

\* checkIfScheduleShouldBeActive without "daysArray.includes(day)".
checkIfScheduleShouldBeActive_NoDayCheck(s, row) ==
  IF StrLE(row.start_time, currentTime) /\ StrLE(currentTime, row.end_time)
  THEN setMaxParallelJobsOn(resumeQueueOn(s), row.max_parallel_jobs)
  ELSE pauseQueueOn(s)

\* checkIfScheduleShouldBeActive(scheduleItem)
checkIfScheduleShouldBeActive(s, row) ==
  IF day \in row.days_of_week
  THEN IF StrLE(row.start_time, currentTime) /\ StrLE(currentTime, row.end_time)
       THEN setMaxParallelJobsOn(resumeQueueOn(s), row.max_parallel_jobs)
       ELSE pauseQueueOn(s)
  ELSE pauseQueueOn(s)

\* schedule.scheduleJob(rule, fn) with rule.dayOfWeek, hour and minute set:
\* the job and what its callback closes over.  node-schedule returns null
\* instead of a job when the rule is not valid (hour outside 0..23, minute
\* outside 0..59, or not a number).
NullJob ==
  [rule |-> 0, kind |-> "null", days |-> {}, hour |-> NaN, minute |-> NaN,
   limit |-> 0]
ValidTime(hm) == hm[1] \in 0..23 /\ hm[2] \in 0..59
Trigger(id, kind, row, hm) ==
  IF ValidTime(hm)
  THEN [rule |-> id, kind |-> kind, days |-> row.days_of_week,
        hour |-> hm[1], minute |-> hm[2], limit |-> row.max_parallel_jobs]
  ELSE NullJob

\* "if (scheduleJobs[id]) { start.cancel(); end.cancel(); delete ... }":
\* ok = FALSE when a .cancel() is called on null and throws; what ran
\* before the throw stays done.
Cancel(s, id) ==
  IF id \notin DOMAIN s.sj THEN [ok |-> TRUE, s |-> s]
  ELSE IF s.sj[id].start = NullJob THEN [ok |-> FALSE, s |-> s]
  ELSE LET c == [s EXCEPT !.timers = @ \ {s.sj[id].start},
                          !.due = @ \ {s.sj[id].start}]
       IN  IF s.sj[id].end = NullJob THEN [ok |-> FALSE, s |-> c]
           ELSE [ok |-> TRUE,
                 s |-> [c EXCEPT !.timers = @ \ {s.sj[id].end},
                                 !.due = @ \ {s.sj[id].end},
                                 !.sj = Without(@, {id})]]

\* setUpSchedule from "const daysArray" on: the two jobs, scheduleJobs[id],
\* checkIfScheduleShouldBeActive.
Register(s, id, row) ==
  LET startJob == Trigger(id, "start", row, ParseTime(row.start_time))
      endJob   == Trigger(id, "end", row, ParseTime(row.end_time))
  IN  checkIfScheduleShouldBeActive(
        [s EXCEPT !.sj = (id :> [start |-> startJob, end |-> endJob])
                           @@ Without(@, {id}),
                  !.timers = @ \cup ({startJob, endJob} \ {NullJob})], row)

\* setUpSchedule(scheduleItem): the state it leaves, also when it throws.
setUpSchedule(s, id, row) ==
  LET c == Cancel(s, id)
  IN  IF c.ok THEN Register(c.s, id, row) ELSE c.s

\* loadSchedules going through the rows from the last to the first.
RECURSIVE SetUpAll_Reversed(_, _)
SetUpAll_Reversed(s, ids) ==
  IF ids = {} THEN s
  ELSE LET id == CHOOSE x \in ids : \A y \in ids : x >= y
       IN  IF Cancel(s, id).ok
           THEN SetUpAll_Reversed(setUpSchedule(s, id, schedule[id]),
                                  ids \ {id})
           ELSE setUpSchedule(s, id, schedule[id])

\* loadSchedules: setUpSchedule for each row with active = 1, in rowid order;
\* a setUpSchedule that throws ends the loop.
RECURSIVE SetUpAll(_, _)
SetUpAll(s, ids) ==
  IF ids = {} THEN s
  ELSE LET id == CHOOSE x \in ids : \A y \in ids : x <= y
       IN  IF Cancel(s, id).ok
           THEN SetUpAll(setUpSchedule(s, id, schedule[id]), ids \ {id})
           ELSE setUpSchedule(s, id, schedule[id])
ActiveRules == {id \in DOMAIN schedule : schedule[id].active = 1}

SchedFrame ==
  UNCHANGED <<fileContent, media, mediaSeq, jobSeq, activeJobsMap, scanVars,
              restartResult>>

\* initializeScheduler(): runs at launch, and again whenever the window is
\* re-created in a running process.
initializeScheduler ==
  /\ schedulerUp' = TRUE
  /\ CommitSched(SetUpAll(Here, ActiveRules))
  /\ UNCHANGED <<schedule, scheduleSeq, clock>>
  /\ SchedFrame

\* createSchedule(scheduleData): the row is inserted with
\* max_parallel_jobs || 2 and active = 1.
createSchedule(data) ==
  /\ schedulerUp /\ scheduleSeq < MaxRules
  /\ LET id  == scheduleSeq + 1
         row == [data EXCEPT !.max_parallel_jobs =
                                IF @ = 0 THEN DefaultRuleLimit ELSE @,
                             !.active = 1]
     IN  /\ schedule' = (id :> row) @@ schedule
         /\ scheduleSeq' = id
         /\ CommitSched(setUpSchedule(Here, id, row))
  /\ UNCHANGED <<clock, schedulerUp>>
  /\ SchedFrame

\* updateSchedule(id, scheduleData).  For an id without a row the UPDATE
\* changes nothing and "updatedSchedule.active" throws.
updateSchedule(id, data) ==
  /\ schedulerUp
  /\ IF id \in DOMAIN schedule
     THEN /\ schedule' = [schedule EXCEPT ![id] = data]
          /\ CommitSched(IF data.active = 1 THEN setUpSchedule(Here, id, data)
                         ELSE Cancel(Here, id).s)
     ELSE schedule' = schedule /\ CommitSched(Here)
  /\ UNCHANGED <<scheduleSeq, clock, schedulerUp>>
  /\ SchedFrame

\* deleteSchedule(id): when a cancel throws, the DELETE is not reached.
deleteSchedule(id) ==
  /\ schedulerUp
  /\ LET c == Cancel(Here, id)
     IN  /\ CommitSched(c.s)
         /\ schedule' = IF c.ok THEN Without(schedule, {id}) ELSE schedule
  /\ UNCHANGED <<scheduleSeq, clock, schedulerUp>>
  /\ SchedFrame

\* setScheduleStatus(id, active).  For an id without a row setUpSchedule is
\* handed undefined and throws before it changes anything.
setScheduleStatus(id, active) ==
  /\ schedulerUp
  /\ IF id \in DOMAIN schedule
     THEN LET row == [schedule[id] EXCEPT !.active = IF active THEN 1 ELSE 0]
          IN  /\ schedule' = [schedule EXCEPT ![id] = row]
              /\ CommitSched(IF active THEN setUpSchedule(Here, id, row)
                             ELSE Cancel(Here, id).s)
     ELSE schedule' = schedule /\ CommitSched(Cancel(Here, id).s)
  /\ UNCHANGED <<scheduleSeq, clock, schedulerUp>>
  /\ SchedFrame

\* The clock reaches its next instant: node-schedule has the jobs to invoke
\* whose rule matches the weekday, hour and minute (second 0).
NextClock ==
  IF clock[2] < Len(Instants) THEN <<clock[1], clock[2] + 1>>
  ELSE <<(clock[1] + 1) % NumDays, 1>>
Matches(t, c) ==
  /\ c[1] \in t.days
  /\ t.hour = Instants[c[2]][1]
  /\ t.minute = Instants[c[2]][2]
Tick ==
  /\ due = {}
  /\ clock' = NextClock
  /\ due' = {t \in timers : Matches(t, NextClock)}
  /\ UNCHANGED <<fileContent, storeVars, dispatchVars, runVars, scanVars,
                 restartResult, schedule, scheduleSeq, scheduleJobs, timers,
                 schedulerUp>>

\* node-schedule invokes the callback of a job: the start callback does
\* resumeQueue(); setMaxParallelJobs(max_parallel_jobs), the end callback
\* pauseQueue().
Fire(id, kind) ==
  /\ \E t \in due :
       /\ t.rule = id /\ t.kind = kind
       /\ LET s == [Here EXCEPT !.due = @ \ {t}]
          IN  CommitSched(IF kind = "start"
                          THEN setMaxParallelJobsOn(resumeQueueOn(s), t.limit)
                          ELSE pauseQueueOn(s))
  /\ UNCHANGED <<schedule, scheduleSeq, clock, schedulerUp>>
  /\ SchedFrame

\* The application quits and is launched again: module state starts over,
\* the database file stays.
Relaunch ==
  /\ schedulerUp
  /\ maxParallelJobs' = DefaultMaxParallelJobs
  /\ activeJobs' = 0
  /\ isQueuePaused' = FALSE
  /\ activeJobsMap' = {}
  /\ pollTimers' = 1
  /\ proc' = [j \in RowIds |-> "none"]
  /\ jobArg' = [j \in RowIds |-> NoJob]
  /\ preEncode' = [j \in RowIds |-> NoFile]
  /\ scheduleJobs' = <<>>
  /\ timers' = {}
  /\ due' = {}
  /\ schedulerUp' = FALSE
  /\ UNCHANGED <<fileContent, storeVars, scanVars, restartResult, schedule,
                 scheduleSeq, clock>>

\* A database an earlier session left with the default rule, one media row
\* and one job waiting; the application is launched at any instant.
InitSched ==
  /\ fileContent = [p \in Paths |-> IF p = 1 THEN OrigFile(p, "h264") ELSE NoFile]
  /\ media = {NewMediaRow(1, 1, OrigFile(1, "h264"))}
  /\ mediaSeq = 1
  /\ encoding_jobs = 1 :> NewJobRow(1, OrigSize(1) \div PriorityUnit, OrigSize(1))
  /\ jobSeq = 1
  /\ maxParallelJobs = DefaultMaxParallelJobs
  /\ activeJobs = 0
  /\ isQueuePaused = FALSE
  /\ activeJobsMap = {}
  /\ pollTimers = 1
  /\ proc = [j \in RowIds |-> "none"]
  /\ jobArg = [j \in RowIds |-> NoJob]
  /\ preEncode = [j \in RowIds |-> NoFile]
  /\ ScannerIdle
  /\ restartResult = "none"
  /\ schedule = 1 :> DefaultRow
  /\ scheduleSeq = 1
  /\ scheduleJobs = <<>>
  /\ timers = {}
  /\ clock \in Days \X (1..Len(Instants))
  /\ due = {}
  /\ schedulerUp = FALSE

NextSched ==
  \/ initializeScheduler
  \/ \E data \in RuleData : createSchedule(data)
  \/ \E id \in RuleIds, data \in RuleData : updateSchedule(id, data)
  \/ \E id \in RuleIds : deleteSchedule(id)
  \/ \E id \in RuleIds, active \in BOOLEAN : setScheduleStatus(id, active)
  \/ Tick
  \/ \E id \in RuleIds, kind \in {"start", "end"} : Fire(id, kind)
  \/ Relaunch

SpecSched == InitSched /\ [][NextSched]_vars

(* ------------------------------ properties ----------------------------- *)
NonTerminal == {"queued", "processing", "replacing_file"}
\* Jobs started and not yet ended as completed or failed.
InFlight == {j \in DOMAIN encoding_jobs :
               encoding_jobs[j].status \in {"processing", "replacing_file"}}
\* Jobs whose run was started and has not ended.
Running == {j \in RowIds : proc[j] \in {"ensureDir", "gpuInfo", "running"}}
StartedInStep ==
  {j \in DOMAIN encoding_jobs \cap DOMAIN encoding_jobs' :
     /\ encoding_jobs[j].status = "queued"
     /\ encoding_jobs'[j].status = "processing"}
Ends(j, how) == proc[j] = "running" /\ proc'[j] = how
HasRow(j) == j \in DOMAIN encoding_jobs

\* C1: a polling pass starts a job only while the number of jobs in flight
\* (started, not yet ended as completed or failed) is below maxParallelJobs,
\* and the number in flight comes to exceed maxParallelJobs only by a step
\* that lowers maxParallelJobs.
C1_StartsOnlyBelowLimit ==
  [][/\ StartedInStep # {} => Cardinality(InFlight') <= maxParallelJobs
     /\ (Cardinality(InFlight') > maxParallelJobs'
           /\ Cardinality(InFlight) <= maxParallelJobs)
        => maxParallelJobs' < maxParallelJobs]_vars

\* C2: activeJobs is the number of jobs started and not yet ended.
C2_ActiveJobsCountsRunning == activeJobs = Cardinality(Running)

\* C3: when the encoder of a job exits with a non-zero code, the job ends
\* failed with an error message, the source file is unchanged, activeJobs is
\* decremented and the job's handle is removed.
C3_NonZeroExitFailsJob ==
  [][\A j \in JobIds : (Ends(j, "closedFail") /\ HasRow(j)) =>
       /\ encoding_jobs'[j].status = "failed"
       /\ encoding_jobs'[j].error_message # NULL
       /\ fileContent' = fileContent
       /\ activeJobs' = activeJobs - 1
       /\ j \notin activeJobsMap']_vars

\* C4: when the encoder exits with code 0 and a non-empty output, the job
\* ends completed with its new size stored, the output replaces the source
\* file, the media row is marked encoded and activeJobs is decremented.
C4_SuccessCompletesJob ==
  [][\A j \in JobIds : (Ends(j, "closedOk") /\ HasRow(j)) =>
       /\ encoding_jobs'[j].status = "completed"
       /\ encoding_jobs'[j].new_size_bytes = Output(j, FALSE).size
       /\ fileContent'[jobArg[j].file_path] = Output(j, FALSE)
       /\ \A m \in MediaOf(media', encoding_jobs', j) :
            ~m.needs_encoding /\ m.encoded_previously
       /\ activeJobs' = activeJobs - 1]_vars

C6_EmptyOutputFailsJob ==
  [][\A j \in JobIds : (Ends(j, "closedEmpty") /\ HasRow(j)) =>
       /\ encoding_jobs'[j].status = "failed"
       /\ encoding_jobs'[j].error_message # NULL
       /\ fileContent' = fileContent
       /\ activeJobs' = activeJobs - 1]_vars

IsFailed(id) ==
  getJobById(media, encoding_jobs, id) /\ encoding_jobs[id].status = "failed"

\* C7: restartJob on a failed job succeeds: the job is queued, its error
\* message is cleared and its retries count is one more than before.
C7_RestartFailedJobSucceeds ==
  [][\A id \in JobIds : (IsFailed(id) /\ restartJob(id)) =>
       /\ restartResult' = "ok"
       /\ encoding_jobs'[id].status = "queued"
       /\ encoding_jobs'[id].error_message = NULL
       /\ encoding_jobs'[id].retries = encoding_jobs[id].retries + 1]_vars

\* C8: restartJob on a job that is not failed throws the invalid-state
\* error, on an unknown id the not-found error, and changes no job row, no
\* media row, nor activeJobs, isQueuePaused or maxParallelJobs.
C8_RestartRejected ==
  [][\A id \in 1..(MaxJobs + 1) : (~IsFailed(id) /\ restartJob(id)) =>
       /\ restartResult' = IF getJobById(media, encoding_jobs, id)
                            THEN "invalid_state" ELSE "not_found"
       /\ UNCHANGED <<encoding_jobs, media, activeJobs, isQueuePaused,
                      maxParallelJobs>>]_vars
\* The last restartJob call was refused for the job's status; a completed
\* job exists and a job is running.
C8_Witness ==
  /\ restartResult = "invalid_state"
  /\ \E j \in DOMAIN encoding_jobs : encoding_jobs[j].status = "completed"
  /\ activeJobs > 0

\* C9: no media id has more than one job in a non-terminal status.
C9_OneOpenJobPerMedia ==
  \A m \in media :
    Cardinality({j \in DOMAIN encoding_jobs :
                   /\ encoding_jobs[j].media_id = m.id
                   /\ encoding_jobs[j].status \in NonTerminal}) <= 1

MediaPaths(M) == {m.file_path : m \in M}
\* C10: there is at most one media row per file path, and a step adds as
\* many rows as it adds paths: an upsert of a recorded path adds none.
C10_OneMediaPerPath ==
  /\ [](Cardinality(media) = Cardinality(MediaPaths(media)))
  /\ [][Cardinality(media') =
          Cardinality(media)
            + Cardinality(MediaPaths(media') \ MediaPaths(media))]_vars
\* More ids were handed out than there are rows: a path was upserted again.
C10_Witness == media # {} /\ mediaSeq > Cardinality(media)

\* C11: for every media row, needs_encoding is false exactly when the stored
\* codec tag (compared without regard to case) is in the accepted set.
C11_NeedsEncodingIffNotAccepted ==
  \A m \in media :
    (~m.needs_encoding) <=> (toLowerCase(m.encoding_type) \in AcceptedCodecs)

\* C12: no step deletes a row of encoding_jobs: a job id that exists before
\* a step exists after it.
C12_JobsNeverDeleted ==
  [][DOMAIN encoding_jobs \subseteq DOMAIN encoding_jobs']_vars

\* C13: a step that begins and ends with the queue paused starts no job and
\* takes no slot, and a step that sets the paused flag changes nothing else:
\* no job row, activeJobs, maxParallelJobs, process handle or run.
C13_PausedStartsNothing ==
  [][/\ (isQueuePaused /\ isQueuePaused')
          => (StartedInStep = {} /\ activeJobs' <= activeJobs)
     /\ (~isQueuePaused /\ isQueuePaused')
          => UNCHANGED <<encoding_jobs, media, fileContent, activeJobs,
                         maxParallelJobs, activeJobsMap, proc>>]_vars
\* The queue is paused while a job waits, a slot is free and an encoder runs.
C13_Witness ==
  /\ isQueuePaused
  /\ activeJobs < maxParallelJobs
  /\ \E j \in DOMAIN encoding_jobs :
       encoding_jobs[j].status = "queued" /\ MediaOf(media, encoding_jobs, j) # {}
  /\ \E j \in JobIds : proc[j] = "running"

Min(a, b) == IF a < b THEN a ELSE b
\* The queued jobs a pass can see (getJobsByStatus joins media).
Startable ==
  {j \in DOMAIN encoding_jobs :
     encoding_jobs[j].status = "queued" /\ MediaOf(media, encoding_jobs, j) # {}}

\* C14: a resumeQueue call leaves the queue not paused and, when a queued
\* job exists and activeJobs < maxParallelJobs at the call, has started
\* min(queued jobs, free slots) jobs by the time it returns: they are in
\* status processing and their runs have begun, no timer involved.
C14_ResumeRunsPassAtOnce ==
  [][resumeQueue =>
       /\ ~isQueuePaused'
       /\ (Startable # {} /\ activeJobs < maxParallelJobs) =>
            /\ Cardinality(StartedInStep) =
                 Min(Cardinality(Startable), maxParallelJobs - activeJobs)
            /\ \A j \in StartedInStep : proc'[j] = "ensureDir"
            /\ activeJobs' = activeJobs + Cardinality(StartedInStep)]_vars
\* The state a resumeQueue call on a paused queue with one free slot and
\* two waiting jobs returns in: one job just started, one still queued.
C14_Witness ==
  /\ ~isQueuePaused
  /\ activeJobs = maxParallelJobs
  /\ Startable # {}
  /\ \E j \in DOMAIN encoding_jobs :
       encoding_jobs[j].status = "processing" /\ proc[j] = "ensureDir"

\* C15: maxParallelJobs is at least 1 in every state, and a step that
\* changes it ends no run, removes no handle, releases no slot and changes
\* no job row except those of the jobs the accompanying pass starts.
C15_LimitAtLeastOne ==
  /\ [](maxParallelJobs >= 1)
  /\ [][maxParallelJobs' # maxParallelJobs =>
         /\ \A j \in Running : proc'[j] = proc[j]
         /\ activeJobsMap' = activeJobsMap
         /\ activeJobs' = activeJobs + Cardinality(StartedInStep)
         /\ DOMAIN encoding_jobs' = DOMAIN encoding_jobs
         /\ \A j \in DOMAIN encoding_jobs \ StartedInStep :
              encoding_jobs'[j] = encoding_jobs[j]]_vars
\* The limit was lowered below the number of running jobs, which all run on.
C15_Witness ==
  /\ maxParallelJobs < activeJobs
  /\ Cardinality(Running) = activeJobs

\* The window of a rule read as times of day: minutes since midnight.
MinutesOf(time) == 60 * ParseTime(time)[1] + ParseTime(time)[2]
NowMinutes == 60 * Instants[clock[2]][1] + Instants[clock[2]][2]
InWindow(row) ==
  /\ day \in row.days_of_week
  /\ MinutesOf(row.start_time) <= NowMinutes
  /\ NowMinutes <= MinutesOf(row.end_time)
\* The step is a call that evaluates rule id and no other rule.
Evaluated(id) ==
  /\ Cancel(Here, id).ok
  /\ \/ id = scheduleSeq + 1 /\ \E data \in RuleData : createSchedule(data)
     \/ /\ id \in DOMAIN schedule
        /\ \/ \E data \in RuleData : data.active = 1 /\ updateSchedule(id, data)
           \/ setScheduleStatus(id, TRUE)

\* C16: a call that evaluates one rule leaves the queue resumed with
\* maxParallelJobs = max(1, the rule's limit) when the weekday is in the
\* rule's set and start <= now <= end, and leaves it paused otherwise.
C16_EvaluationFollowsWindow ==
  [][\A id \in RuleIds : Evaluated(id) =>
       IF InWindow(schedule'[id])
       THEN /\ ~isQueuePaused'
            /\ maxParallelJobs' = Max(1, schedule'[id].max_parallel_jobs)
       ELSE isQueuePaused']_vars
\* A rule for every weekday, 00:00-23:59, limit MaxCount + 1 is enabled,
\* the queue is resumed and the limit is the rule's.
C16_Witness ==
  /\ schedulerUp /\ ~isQueuePaused /\ maxParallelJobs = MaxCount + 1
  /\ \E id \in DOMAIN schedule :
       schedule[id] = [days_of_week |-> Days, start_time |-> HHMM(0, 0),
                       end_time |-> HHMM(23, 59),
                       max_parallel_jobs |-> MaxCount + 1, active |-> 1]

\* The rules a loadSchedules call beginning in this state evaluates: the
\* enabled rules up to the first whose setUpSchedule throws at its cancel.
CancelThrows(id) ==
  /\ id \in DOMAIN scheduleJobs
  /\ NullJob \in {scheduleJobs[id].start, scheduleJobs[id].end}
EvaluatedAtLoad ==
  {id \in ActiveRules :
     \A x \in ActiveRules : x <= id => ~CancelThrows(x)}
InWindowRules == {id \in EvaluatedAtLoad : InWindow(schedule[id])}
Last(ids) == CHOOSE x \in ids : \A y \in ids : y <= x

\* C17 as stated: after several enabled rules were evaluated one after
\* another, the paused flag and maxParallelJobs are those that evaluating the
\* last rule alone gives (an out-of-window rule alone pauses and leaves the
\* limit as it was).
C17_LastRuleAlone ==
  [][(initializeScheduler /\ Cardinality(EvaluatedAtLoad) >= 2) =>
       LET r == schedule[Last(EvaluatedAtLoad)]
       IN  IF InWindow(r)
           THEN /\ ~isQueuePaused'
                /\ maxParallelJobs' = Max(1, r.max_parallel_jobs)
           ELSE /\ isQueuePaused'
                /\ maxParallelJobs' = maxParallelJobs]_vars

\* C17 amended: after several enabled rules were evaluated one after
\* another, the queue is paused exactly when the last rule evaluated is
\* outside its window, and maxParallelJobs is max(1, limit) of the last
\* evaluated rule that is inside its window (unchanged when there is none).
C17_LastEvaluationWins ==
  [][(initializeScheduler /\ Cardinality(EvaluatedAtLoad) >= 2) =>
       /\ isQueuePaused' = ~InWindow(schedule[Last(EvaluatedAtLoad)])
       /\ maxParallelJobs' =
            IF InWindowRules = {} THEN maxParallelJobs
            ELSE Max(1, schedule[Last(InWindowRules)].max_parallel_jobs)]_vars
\* Two rules are enabled, the first inside its window, the second outside:
\* the scheduler is up and the queue is paused.
C17_Witness ==
  /\ schedulerUp /\ isQueuePaused
  /\ ActiveRules = {1, 2} /\ EvaluatedAtLoad = {1, 2}
  /\ InWindow(schedule[1]) /\ ~InWindow(schedule[2])

\* The outcome of evaluating row now and applying its signal.
Applied(row) ==
  IF InWindow(row)
  THEN ~isQueuePaused' /\ maxParallelJobs' = Max(1, row.max_parallel_jobs)
  ELSE isQueuePaused'

\* C18: every create, update, delete, enable and disable of a rule evaluates
\* that rule against the current weekday and time within the call and
\* applies the signal; in particular a call that deletes or disables a rule
\* which is outside its window leaves the queue paused.
C18_EveryChangeReevaluates ==
  [][\A id \in RuleIds :
       /\ (id = scheduleSeq + 1 /\ \E data \in RuleData : createSchedule(data))
            => Applied(schedule'[id])
       /\ (id \in DOMAIN schedule /\ setScheduleStatus(id, TRUE))
            => Applied(schedule'[id])
       /\ \A data \in RuleData :
            (id \in DOMAIN schedule /\ updateSchedule(id, data)) =>
              IF data.active = 1 THEN Applied(data)
              ELSE ~InWindow(data) => isQueuePaused'
       /\ (id \in DOMAIN schedule /\ setScheduleStatus(id, FALSE))
            => (~InWindow(schedule[id]) => isQueuePaused')
       /\ (id \in DOMAIN schedule /\ deleteSchedule(id))
            => (~InWindow(schedule[id]) => isQueuePaused')]_vars

\* Rule 1 is the only rule there ever was, it is enabled, its two triggers
\* are registered and every trigger that was due has run.
SingleRuleSettled ==
  /\ schedulerUp /\ scheduleSeq = 1 /\ ActiveRules = {1}
  /\ 1 \in DOMAIN scheduleJobs /\ ~CancelThrows(1)
  /\ due = {}

\* C19: with a single enabled rule the paused flag at any instant is the one
\* an evaluation of the rule at that instant gives, whether it was set by
\* such an evaluation or by the rule's start and end triggers since; also
\* for a rule with start > end and at the instant t = end.
C19_TriggersAgreeWithEvaluation ==
  SingleRuleSettled => (isQueuePaused <=> ~InWindow(schedule[1]))

\* The registered triggers of one kind that belong to rule id.
TriggersOf(id, kind) == {t \in timers : t.rule = id /\ t.kind = kind}

\* C20: once the scheduler is initialized, after any loads, creates, updates,
\* toggles and deletes, each enabled rule has exactly one registered start
\* trigger and exactly one registered end trigger, and each disabled or
\* deleted rule has none.
C20_OneTriggerPairPerEnabledRule ==
  schedulerUp =>
    \A id \in RuleIds : \A kind \in {"start", "end"} :
      Cardinality(TriggersOf(id, kind)) =
        IF id \in ActiveRules THEN 1 ELSE 0

\* C21: creating a rule with active = 0 stores the rule as disabled,
\* registers no trigger for it and sends no pause, resume or limit signal.
C21_CreateDisabledIsInert ==
  [][\A data \in RuleData :
       (data.active = 0 /\ createSchedule(data)) =>
         /\ schedule'[scheduleSeq + 1].active = 0
         /\ {t \in timers' : t.rule = scheduleSeq + 1} = {}
         /\ isQueuePaused' = isQueuePaused
         /\ maxParallelJobs' = maxParallelJobs]_vars

\* C22: a create or update call handed a malformed rule (a start that is no
\* time of day) changes nothing: no row is inserted or changed, no trigger
\* is cancelled or registered, paused and the limit stay.
C22_MalformedRuleRejected ==
  [][(\/ createSchedule(MalformedRule)
      \/ \E id \in RuleIds : updateSchedule(id, MalformedRule)) =>
       UNCHANGED <<schedule, scheduleSeq, scheduleJobs, timers,
                   isQueuePaused, maxParallelJobs>>]_vars

\* 1 when the condition holds, else 0.
One(b) == IF b THEN 1 ELSE 0

\* C23: a scan starts with all counters 0, and every entry it visits whose
\* stat and probe succeed adds to scanned 1 when the entry has a media
\* extension, to added 1 when that file also has a video stream (whether
\* or not its path was recorded before), to needsEncoding 1 when in
\* addition its codec, in lower case, is not an accepted one, and nothing
\* to errors.
C23_CountersFollowEntries ==
  [][/\ (\E root \in Roots : ScanStart(root)) => results' = NoResults
     /\ \A outcome \in {"ok", "noVideo"} :
          ScanFileCounted(outcome) =>
            LET e     == Head(scanQueue)
                video == isMediaFile(e) /\ outcome = "ok"
            IN  /\ results'.scanned = results.scanned + One(isMediaFile(e))
                /\ results'.added = results.added + One(video)
                /\ results'.needsEncoding = results.needsEncoding
                     + One(video /\ toLowerCase(fileContent[e].codec)
                                      \notin {"hevc", "h265", "av1"})
                /\ results'.errors = results.errors]_vars
\* The walk over a library of one hevc file and one h264 file is complete
\* without an error: scanned = 2, added = 2, needsEncoding = 1.
C23_Witness ==
  /\ scanning /\ scanQueue = <<>>
  /\ results = [scanned |-> 2, added |-> 2, errors |-> 0, needsEncoding |-> 1]
  /\ \E p, q \in Paths :
       fileContent[p].codec = "hevc" /\ fileContent[q].codec = "h264"

\* C24: a probe error or a stat error on one entry of a scan adds one to
\* errors and leaves every entry after it, those of the same directory
\* included, to be visited.
C24_FailureSkipsOnlyItsFile ==
  [][\A outcome \in {"probeError", "statError"} :
       ScanFileCounted(outcome) =>
         /\ results'.errors = results.errors + 1
         /\ scanQueue' = Tail(scanQueue)]_vars

\* C25: a step that installs the watch on a root is a step of a scan whose
\* walk is complete: no watch is installed by the start of a scan, so none
\* is active on a root for the first time while its entries are walked.
C25_WatchInstalledAfterWalk ==
  [][(watcher' # watcher \/ watching' # watching) =>
       (scanning /\ scanQueue = <<>>)]_vars

\* C26: at every moment at most one watch is open, it is the one "watcher"
\* refers to, and after any scan calls it watches the root of the most
\* recent call: a scan call makes its root the watched one and no other
\* step changes it.
C26_SingleWatchOnLatestRoot ==
  /\ [](/\ Cardinality(watching) <= 1
        /\ watching = IF watcher = NoRoot THEN {} ELSE {watcher})
  /\ [][/\ \A root \in Roots : (ScanStart(root) => watcher' = root)
        /\ (\A root \in Roots : ~ScanStart(root)) => watcher' = watcher]_vars
\* After a scan of the library root recorded a file, a scan of another root
\* was called: the only open watch is on that other root.
C26_Witness ==
  /\ media # {}
  /\ watcher # NoRoot /\ watcher # LibraryRoot
  /\ watching = {watcher}

\* The step ran queueEncodingJobs: every media row that needs encoding got
\* a new queued job in it.
Admitted ==
  /\ \A m \in media' :
       m.needs_encoding =>
         \E j \in DOMAIN encoding_jobs' :
           /\ j > jobSeq
           /\ encoding_jobs'[j].media_id = m.id
           /\ encoding_jobs'[j].status = "queued"
  /\ jobSeq' = jobSeq + Cardinality({m \in media' : m.needs_encoding})

\* C27: queueEncodingJobs runs at every scan completion and in every 'add'
\* event whose upsert succeeded; a 'change' event never runs it and creates
\* no job row.
C27_AdmissionOnScanAndAddOnly ==
  [][/\ ScanFinish => Admitted
     /\ \A p \in Paths :
          /\ (WatchAdd(p) /\ mediaSeq' # mediaSeq) => Admitted
          /\ WatchChange(p) =>
               /\ jobSeq' = jobSeq
               /\ DOMAIN encoding_jobs' \subseteq DOMAIN encoding_jobs]_vars
\* A file that appeared under the watched root is recorded as needing
\* encoding and has a queued job, with no scan in progress.
C27_Witness ==
  /\ ~scanning /\ watcher = LibraryRoot
  /\ \E m \in media :
       /\ m.file_path = NumPaths /\ m.needs_encoding
       /\ \E j \in DOMAIN encoding_jobs :
            encoding_jobs[j].media_id = m.id
              /\ encoding_jobs[j].status = "queued"

\* Job x comes before job y in the order of a pass: higher priority, or the
\* same priority and created earlier (ids are handed out in creation order).
Precedes(J, x, y) ==
  \/ J[x].priority > J[y].priority
  \/ J[x].priority = J[y].priority /\ x < y
QueuedJobs == {j \in DOMAIN encoding_jobs : encoding_jobs[j].status = "queued"}
PassRuns ==
  \/ Poll /\ ~isQueuePaused
  \/ resumeQueue
  \/ \E count \in Counts : ScheduleActive(count)

\* The number of jobs a pass has room and work for.
FreeAndQueued ==
  IF maxParallelJobs - activeJobs <= 0 THEN 0
  ELSE IF Cardinality(QueuedJobs) < maxParallelJobs - activeJobs
       THEN Cardinality(QueuedJobs)
       ELSE maxParallelJobs - activeJobs

\* C28: a pass starts the first (maxParallelJobs - activeJobs) queued jobs in
\* the order priority descending, then creation ascending: the jobs a pass is
\* about to start are as many as there are free slots and queued jobs, no
\* job it leaves queued comes before one of them, and the jobs a running
\* pass starts are exactly these.
C28_PassStartsFirstInOrder ==
  /\ [](/\ Cardinality(QueuedToStart(FALSE)) = FreeAndQueued
        /\ \A s \in QueuedToStart(FALSE) :
             \A w \in QueuedJobs \ QueuedToStart(FALSE) :
               ~Precedes(encoding_jobs, w, s))
  /\ [][PassRuns => StartedInStep = QueuedToStart(FALSE)]_vars
\* A job of higher priority runs while a job created before it still waits.
C28_Witness ==
  \E w \in DOMAIN encoding_jobs, s \in DOMAIN encoding_jobs :
    /\ w < s
    /\ encoding_jobs[w].status = "queued"
    /\ encoding_jobs[s].status = "processing"
    /\ encoding_jobs[s].priority > encoding_jobs[w].priority
    /\ proc[s] = "ensureDir"

\* C29: the polling loop survives the failure of a job: whatever a job threw
\* before, while the queue is not paused, a job is queued and fewer jobs run
\* than maxParallelJobs, the next pass starts a job.
C29_LoopSurvivesJobFailure ==
  (/\ ~isQueuePaused
   /\ QueuedJobs # {}
   /\ Cardinality(Running) < maxParallelJobs) => QueuedToStart(isQueuePaused) # {}

\* C30: every failed job is in the failed list of getEncodingQueue, with its
\* error text, however many failed jobs there are.
C30_FailedJobsStayVisible ==
  \A j \in DOMAIN encoding_jobs :
    (encoding_jobs[j].status = "failed" /\ MediaOf(media, encoding_jobs, j) # {})
    => \E e \in getEncodingQueue(media, encoding_jobs, isQueuePaused,
                                 maxParallelJobs).failed :
         e.id = j /\ e.row.error_message = encoding_jobs[j].error_message

\* C31: there is one polling loop: at most one timer of processEncodingQueue
\* is pending, whatever resumeQueue calls, schedule start triggers and
\* re-initializations came before.
C31_OnePollingLoop == pollTimers <= 1

\* C32: updateJobStatus succeeds and stores the new status and the fields for
\* every status of the state machine and every set of partial fields, the
\* empty set included.
C32_UpdateStoresEveryStatus ==
  \A id \in DOMAIN encoding_jobs, status \in Statuses, data \in PartialFields :
    LET u == updateJobStatus(encoding_jobs, id, status, data)
    IN  /\ u.ok
        /\ u.jobs[id].status = status
        /\ \A f \in DOMAIN data : u.jobs[id][f] = data[f]

\* C33: addMedia for a path already recorded updates the row in place: the
\* media id and the encoded_previously flag stay, and every job of the media
\* still exists and still references it.
C33_ReUpsertInPlace ==
  [][\A p \in Paths : \A m \in media :
       (m.file_path = p /\ \E codec \in StoreCodecs : StoreAddMedia(p, codec))
       => /\ \E n \in media' : /\ n.file_path = p
                                /\ n.id = m.id
                                /\ n.encoded_previously = m.encoded_previously
          /\ \A j \in DOMAIN encoding_jobs :
               encoding_jobs[j].media_id = m.id
               => /\ j \in DOMAIN encoding_jobs'
                  /\ encoding_jobs'[j].media_id = m.id]_vars

\* C34: no two jobs whose encoders run at the same time write to the same
\* scratch output path.
C34_ScratchPathsDistinct ==
  \A i \in RowIds, j \in RowIds :
    (i # j /\ proc[i] = "running" /\ proc[j] = "running")
    => tempFilePath(jobArg[i].file_path) # tempFilePath(jobArg[j].file_path)

\* C35: when a schedule rule with limit L becomes active, the pass its
\* activation runs starts jobs only while fewer than L jobs are in flight:
\* after an activation that started a job, no more than L are in flight.
C35_ActivationPassUsesNewLimit ==
  [][((\E count \in Counts : ScheduleActive(count)) /\ StartedInStep # {})
     => Cardinality(InFlight') <= maxParallelJobs']_vars

StatusChanges ==
  {<<"queued", "processing">>, <<"processing", "replacing_file">>,
   <<"processing", "failed">>, <<"replacing_file", "completed">>,
   <<"replacing_file", "failed">>, <<"failed", "queued">>}

\* C36: every change of a job's status is one of StatusChanges; a completed
\* job never changes status, and a job leaves queued only by a pass
\* starting its run.
C36_StatusChangesAllowed ==
  [][\A j \in DOMAIN encoding_jobs \cap DOMAIN encoding_jobs' :
       encoding_jobs'[j].status # encoding_jobs[j].status
       => /\ <<encoding_jobs[j].status, encoding_jobs'[j].status>>
               \in StatusChanges
          /\ encoding_jobs[j].status = "queued"
               => (PassRuns /\ proc'[j] = "ensureDir")]_vars
\* A pass has started a queued job while a completed job is in the table.
C36_Witness ==
  \E j \in DOMAIN encoding_jobs, k \in DOMAIN encoding_jobs :
    /\ encoding_jobs[j].status = "processing" /\ proc[j] = "ensureDir"
    /\ encoding_jobs[k].status = "completed" /\ proc[k] = "none"

\* The encoder process of job j is gone: it failed to spawn, emitted 'error'
\* or exited.
Gone(j) ==
  proc[j] \in {"spawnThrew", "procError", "closedFail", "closedOk",
               "closedEmpty"}
Ended(j) ==
  /\ j \in DOMAIN encoding_jobs
  /\ encoding_jobs[j].status \in {"completed", "failed"}

\* C37: once the encoder process of a started job is gone, the job
\* eventually has status completed or failed.
C37_StartedJobsEnd == \A j \in RowIds : Gone(j) ~> Ended(j)

\* C38: when the queue does not stay paused, every queued job is eventually
\* started.
C38_QueuedJobsStart ==
  (<>[](~isQueuePaused))
  => \A j \in RowIds :
       (j \in QueuedJobs) ~> (j \in DOMAIN encoding_jobs /\ proc[j] # "none")

\* The jobs a step created, and the media row a job references after it.
CreatedInStep == {j \in DOMAIN encoding_jobs' : j > jobSeq}
MediaAfter(j) == CHOOSE m \in media' : m.id = encoding_jobs'[j].media_id

\* C39: a job created by admission is queued, carries the byte size of its
\* media row at admission and the priority floor(size / 104857600); one
\* admission creates at most 100 jobs, in descending order of size, so a
\* larger file never gets a lower priority than a smaller one.
C39_AdmittedJobFields ==
  [][/\ \A j \in CreatedInStep :
          /\ \E m \in media' : m.id = encoding_jobs'[j].media_id
          /\ encoding_jobs'[j].status = "queued"
          /\ encoding_jobs'[j].original_size_bytes = MediaAfter(j).file_size_bytes
          /\ 104857600 * encoding_jobs'[j].priority
               <= MediaAfter(j).file_size_bytes
          /\ MediaAfter(j).file_size_bytes
               < 104857600 * (encoding_jobs'[j].priority + 1)
     /\ Cardinality(CreatedInStep) <= 100
     /\ \A i \in CreatedInStep, j \in CreatedInStep :
          /\ i < j => MediaAfter(i).file_size_bytes >= MediaAfter(j).file_size_bytes
          /\ MediaAfter(i).file_size_bytes > MediaAfter(j).file_size_bytes
               => encoding_jobs'[i].priority >= encoding_jobs'[j].priority]_vars
\* One admission created a job for each of two files; the larger file has the
\* later media id, the earlier job and the higher priority.
C39_Witness ==
  /\ jobSeq = 2
  /\ \E a \in media, b \in media :
       /\ a.id > b.id /\ a.file_size_bytes > b.file_size_bytes
       /\ 1 \in DOMAIN encoding_jobs /\ 2 \in DOMAIN encoding_jobs
       /\ encoding_jobs[1].media_id = a.id /\ encoding_jobs[2].media_id = b.id
       /\ encoding_jobs[1].priority = 3 /\ encoding_jobs[2].priority = 0
       /\ encoding_jobs[1].status = "queued" /\ encoding_jobs[2].status = "queued"

\* The media rows that have a completed job.
Completed ==
  {m \in media : \E k \in DOMAIN encoding_jobs :
                   /\ encoding_jobs[k].media_id = m.id
                   /\ encoding_jobs[k].status = "completed"}

\* C40: once a job of a media record is completed, admission creates no new
\* job for that record; a new job for its file is created only after the
\* file was recorded again with a codec outside the accepted set.
C40_NoJobAfterCompletion ==
  [][\A m \in Completed : \A j \in CreatedInStep :
       /\ encoding_jobs'[j].media_id # m.id
       /\ MediaAfter(j).file_path = m.file_path
            => toLowerCase(MediaAfter(j).encoding_type) \notin AcceptedCodecs]_vars
\* An admission ran over two media rows: the file of the completed job got
\* no job, the other file got one.
C40_Witness ==
  /\ Completed # {}
  /\ jobSeq = 2
  /\ 2 \in DOMAIN encoding_jobs
  /\ \A m \in Completed : encoding_jobs[2].media_id # m.id
====
